---- MODULE Spec2Model ----
(***************************************************************************)
(* SHA-512 x86/x86_64 backend (sha2/src/sha512/x86.rs): the dispatcher     *)
(* compress, the wide dual-block path sha512_compress_x86_64_avx2 and the  *)
(* narrow single-block path sha512_compress_x86_64_avx, at the level of    *)
(* 64-bit words, vector lanes and block bytes.                             *)
(*                                                                         *)
(* A u64 is a tuple of four 16-bit limbs, least significant first, so that *)
(* every intermediate value stays inside the model checker's integers      *)
(* while additions wrap mod 2^64 and rotations/shifts move all 64 bits.    *)
(* A __m128i is a tuple of 2 u64 (element 0 first), a __m256i a tuple of   *)
(* 4 u64: elements 0,1 are the low 128-bit lane, 2,3 the high lane.        *)
(***************************************************************************)
EXTENDS Integers, Sequences, FiniteSets, TLC

\* ---------------------------------------------------------------- bounds
MaxBlocks == 4

\* ------------------------------------------------------------- constants
SHA512_BLOCK_BYTE_LEN == 128
SHA512_ROUNDS_NUM == 80
SHA512_HASH_BYTE_LEN == 64
SizeOfU64 == 8
SHA512_HASH_WORDS_NUM == SHA512_HASH_BYTE_LEN \div SizeOfU64
SHA512_BLOCK_WORDS_NUM == SHA512_BLOCK_BYTE_LEN \div SizeOfU64
SizeOfM128 == 2 * SizeOfU64

\* ------------------------------------------------------ 64-bit arithmetic
LimbBits == 2 * SizeOfU64
LimbBase == 2 ^ LimbBits
Zero64 == <<0, 0, 0, 0>>

\* u64::wrapping_add
wrapping_add(a, b) ==
  LET s1 == a[1] + b[1]
      s2 == a[2] + b[2] + (s1 \div LimbBase)
      s3 == a[3] + b[3] + (s2 \div LimbBase)
      s4 == a[4] + b[4] + (s3 \div LimbBase)
  IN  <<s1 % LimbBase, s2 % LimbBase, s3 % LimbBase, s4 % LimbBase>>

\* limb i (0-based) of a, indices wrapping around the word
LimbRot(a, i) == a[(i % 4) + 1]
\* limb i (0-based) of a, zero outside the word
LimbZ(a, i) == IF i >= 0 /\ i < 4 THEN a[i + 1] ELSE 0

\* u64::rotate_right
rotate_right(a, n) ==
  LET q == n \div LimbBits
      lo == 2 ^ (n % LimbBits)
      hi == 2 ^ (LimbBits - (n % LimbBits))
      part(i) == (LimbRot(a, i + q) \div lo) + (LimbRot(a, i + q + 1) % lo) * hi
  IN  <<part(0), part(1), part(2), part(3)>>

\* logical right shift of one u64 by n bits (one element of _mm*_srli_epi64)
shr64(a, n) ==
  LET q == n \div LimbBits
      lo == 2 ^ (n % LimbBits)
      hi == 2 ^ (LimbBits - (n % LimbBits))
      part(i) == (LimbZ(a, i + q) \div lo) + (LimbZ(a, i + q + 1) % lo) * hi
  IN  <<part(0), part(1), part(2), part(3)>>

\* left shift of one u64 by n bits (one element of _mm*_slli_epi64)
shl64(a, n) ==
  LET q == n \div LimbBits
      lo == 2 ^ (n % LimbBits)
      hi == 2 ^ (LimbBits - (n % LimbBits))
      part(i) == (LimbZ(a, i - q) % hi) * lo + (LimbZ(a, i - q - 1) \div hi)
  IN  <<part(0), part(1), part(2), part(3)>>

\* a finite sequence given as a function on 1..n, as the same sequence in
\* tuple form (so that it is computed once, not at each application)
Tuple(f) == f \o <<>>

\* bitwise tables on bytes (built from 4-bit digits), entry [a + 1][b + 1] for
\* operands a and b, and the 16-bit and 64-bit operations on top of them
BitOf(n, k) == (n \div (2 ^ k)) % 2
XorNib ==
  Tuple([a \in 1..16 |-> Tuple([b \in 1..16 |->
     ((BitOf(a - 1, 0) + BitOf(b - 1, 0)) % 2)
     + 2 * ((BitOf(a - 1, 1) + BitOf(b - 1, 1)) % 2)
     + 4 * ((BitOf(a - 1, 2) + BitOf(b - 1, 2)) % 2)
     + 8 * ((BitOf(a - 1, 3) + BitOf(b - 1, 3)) % 2)])])
AndNib ==
  Tuple([a \in 1..16 |-> Tuple([b \in 1..16 |->
     (BitOf(a - 1, 0) * BitOf(b - 1, 0))
     + 2 * (BitOf(a - 1, 1) * BitOf(b - 1, 1))
     + 4 * (BitOf(a - 1, 2) * BitOf(b - 1, 2))
     + 8 * (BitOf(a - 1, 3) * BitOf(b - 1, 3))])])
ByteTable(nib) ==
  Tuple([a \in 1..256 |-> Tuple([b \in 1..256 |->
     nib[((a - 1) % 16) + 1][((b - 1) % 16) + 1]
     + 16 * nib[((a - 1) \div 16) + 1][((b - 1) \div 16) + 1]])])
XorByte == ByteTable(XorNib)
AndByte == ByteTable(AndNib)
Op16(tab, a, b) ==
  tab[(a % 256) + 1][(b % 256) + 1] + 256 * tab[(a \div 256) + 1][(b \div 256) + 1]
\* u64 ^
xor64(a, b) ==
  <<Op16(XorByte, a[1], b[1]), Op16(XorByte, a[2], b[2]),
    Op16(XorByte, a[3], b[3]), Op16(XorByte, a[4], b[4])>>
\* u64 &
and64(a, b) ==
  <<Op16(AndByte, a[1], b[1]), Op16(AndByte, a[2], b[2]),
    Op16(AndByte, a[3], b[3]), Op16(AndByte, a[4], b[4])>>
\* !a on u64
not64(a) ==
  <<LimbBase - 1 - a[1], LimbBase - 1 - a[2],
    LimbBase - 1 - a[3], LimbBase - 1 - a[4]>>

\* 0-based indexing, as in the Rust source
At(s, i) == s[i + 1]

\* --------------------------------------------------------- round constants
\* crate::consts::K64: the 80 round constants of SHA-512
K64 ==
    <<
       <<44578, 55080, 12184, 17034>>, <<26061, 9199, 17553, 28983>>,
       <<15151, 60493, 64463, 46528>>, <<56252, 33161, 56229, 59829>>,
       <<46392, 62280, 49755, 14678>>, <<53273, 46597, 4593, 23025>>,
       <<20379, 44825, 33444, 37439>>, <<33048, 55917, 24277, 43804>>,
       <<578, 41731, 43672, 55303>>, <<28606, 17776, 23297, 4739>>,
       <<45708, 20196, 34238, 9265>>, <<46306, 54783, 32195, 21772>>,
       <<35183, 62075, 23924, 29374>>, <<38577, 15126, 45566, 32990>>,
       <<4661, 9671, 1703, 39900>>, <<9876, 53097, 61812, 49563>>,
       <<19154, 40689, 27073, 58523>>, <<9699, 14415, 18310, 61374>>,
       <<54709, 35724, 40390, 4033>>, <<40037, 30636, 41420, 9228>>,
       <<629, 22827, 11375, 11753>>, <<58499, 28326, 33962, 19060>>,
       <<64468, 48449, 43484, 23728>>, <<21429, 33553, 35034, 30457>>,
       <<57259, 61030, 20818, 38974>>, <<12816, 11700, 50797, 43057>>,
       <<8511, 39163, 10184, 45059>>, <<3812, 48879, 32711, 48985>>,
       <<36802, 15784, 3059, 50912>>, <<42789, 37642, 37191, 54695>>,
       <<33391, 57347, 25425, 1738>>, <<28272, 2574, 10599, 5161>>,
       <<12284, 18130, 2693, 10167>>, <<51494, 23590, 8504, 11803>>,
       <<10989, 23236, 28156, 19756>>, <<46047, 40341, 3347, 21304>>,
       <<25566, 35759, 29524, 25866>>, <<45736, 15479, 2747, 30314>>,
       <<44774, 18413, 51502, 33218>>, <<13627, 5250, 11397, 37490>>,
       <<868, 19697, 59553, 41663>>, <<12289, 48194, 26187, 43034>>,
       <<38801, 53496, 35696, 49739>>, <<48688, 1620, 20899, 51052>>,
       <<21016, 55023, 59417, 53650>>, <<43280, 21861, 1572, 54937>>,
       <<8234, 22385, 13701, 62478>>, <<53688, 12987, 41072, 4202>>,
       <<53448, 47314, 49430, 6564>>, <<43859, 20801, 27656, 7735>>,
       <<60313, 57230, 30540, 10056>>, <<18600, 57755, 48309, 13488>>,
       <<23139, 50633, 3251, 14620>>, <<35531, 58177, 43594, 20184>>,
       <<58227, 30563, 51791, 23452>>, <<47267, 54962, 28659, 26670>>,
       <<45820, 24047, 33518, 29839>>, <<12128, 17175, 25455, 30885>>,
       <<43890, 41456, 30740, 33992>>, <<14828, 6756, 520, 36039>>,
       <<7720, 9059, 65530, 37054>>, <<48617, 56962, 27883, 42064>>,
       <<30997, 45766, 41975, 48889>>, <<21291, 58226, 30962, 50801>>,
       <<24988, 59942, 16078, 51751>>, <<49671, 8640, 47303, 53638>>,
       <<60190, 52704, 32214, 60122>>, <<53624, 61038, 20351, 62845>>,
       <<28602, 29207, 26538, 1776>>, <<39078, 41672, 32197, 2659>>,
       <<3502, 48889, 38916, 4415>>, <<18203, 4892, 2869, 7025>>,
       <<32132, 8964, 30709, 10459>>, <<9363, 16583, 43899, 13002>>,
       <<48828, 5577, 48650, 15518>>, <<3404, 39952, 26564, 17181>>,
       <<17078, 52030, 54462, 19653>>, <<32298, 64613, 10652, 22911>>,
       <<64236, 15062, 28587, 24523>>, <<22551, 19015, 6540, 27716>>    >>

\* crate::consts::K64X4: K64 laid out for 256-bit loads, each pair of
\* constants repeated for the low and the high 128-bit lane
K64X4 ==
  Tuple([n \in 1..(2 * SHA512_ROUNDS_NUM) |->
     K64[2 * ((n - 1) \div 4) + ((n - 1) % 2) + 1]])

\* ------------------------------------------------------- vector intrinsics
\* the bytes of a vector in memory order (little-endian u64 elements)
Bytes(v) ==
  Tuple([b \in 1..(SizeOfU64 * Len(v)) |->
     LET w == v[((b - 1) \div SizeOfU64) + 1]
         l == w[(((b - 1) % SizeOfU64) \div 2) + 1]
     IN  IF (b - 1) % 2 = 0 THEN l % 256 ELSE l \div 256])
\* the vector whose memory image is the byte sequence bs
FromBytes(bs) ==
  Tuple([e \in 1..(Len(bs) \div SizeOfU64) |->
     LET o == SizeOfU64 * (e - 1)
     IN  <<bs[o + 1] + 256 * bs[o + 2], bs[o + 3] + 256 * bs[o + 4],
           bs[o + 5] + 256 * bs[o + 6], bs[o + 7] + 256 * bs[o + 8]>>])

\* byte at offset off of the contiguous array blocks: &[[u8; 128]]
ByteAt(blocks, off) ==
  blocks[(off \div SHA512_BLOCK_BYTE_LEN) + 1][(off % SHA512_BLOCK_BYTE_LEN) + 1]
\* _mm_loadu_si128 from the block bytes at byte offset off
LoadBlockBytes(blocks, off) ==
  FromBytes(Tuple([b \in 1..SizeOfM128 |-> ByteAt(blocks, off + b - 1)]))
\* _mm_loadu_si128 / _mm256_loadu_si256 of `lanes` u64 starting at tab[idx]
LOAD(tab, idx, lanes) == Tuple([e \in 1..lanes |-> tab[idx + e]])

\* _mm_setr_epi32(e0, e1, e2, e3)
mm_setr_epi32(e0, e1, e2, e3) ==
  <<<<e0 % LimbBase, e0 \div LimbBase, e1 % LimbBase, e1 \div LimbBase>>,
    <<e2 % LimbBase, e2 \div LimbBase, e3 % LimbBase, e3 \div LimbBase>>>>
\* _mm256_set_epi64x(e3, e2, e1, e0)
mm256_set_epi64x(e3, e2, e1, e0) == <<e0, e1, e2, e3>>

\* _mm_shuffle_epi8 / _mm256_shuffle_epi8: byte shuffle inside each 128-bit lane
shuffle_epi8(a, mask) ==
  LET ab == Bytes(a)
      mb == Bytes(mask)
  IN  FromBytes(Tuple([b \in 1..Len(ab) |->
        IF mb[b] >= 128 THEN 0
        ELSE ab[SizeOfM128 * ((b - 1) \div SizeOfM128) + (mb[b] % 16) + 1]]))

\* _mm256_insertf128_si256::<1> and ::<0>
insertf128_1(a, b) == <<a[1], a[2], b[1], b[2]>>
insertf128_0(a, b) == <<b[1], b[2], a[3], a[4]>>
\* _mm256_extracti128_si256::<0> and ::<1>
extracti128_0(y) == <<y[1], y[2]>>
extracti128_1(y) == <<y[3], y[4]>>

\* _mm_add_epi64 / _mm256_add_epi64
ADD64(a, b) == Tuple([e \in 1..Len(a) |-> wrapping_add(a[e], b[e])])
\* _mm_xor_si128 / _mm256_xor_si256
XOR(a, b) == Tuple([e \in 1..Len(a) |-> xor64(a[e], b[e])])
\* _mm_srli_epi64 / _mm256_srli_epi64
SRL64(a, n) == Tuple([e \in 1..Len(a) |-> shr64(a[e], n)])
\* _mm_slli_epi64 / _mm256_slli_epi64
SLL64(a, n) == Tuple([e \in 1..Len(a) |-> shl64(a[e], n)])
\* _mm_alignr_epi8::<8> / _mm256_alignr_epi8::<8>: in each 128-bit lane the
\* high u64 of b followed by the low u64 of a
ALIGNR8(a, b) ==
  Tuple([e \in 1..Len(a) |-> IF e % 2 = 1 THEN b[e + 1] ELSE a[e - 1]])

\* _mm_store_si128(&mut arr[idx], v): two u64 starting at arr[idx]
Store128(arr, idx, v) == [arr EXCEPT ![idx + 1] = v[1], ![idx + 2] = v[2]]

\* ----------------------------------------------------------- round function
big_sigma0(a) ==
  xor64(xor64(rotate_right(a, 28), rotate_right(a, 34)), rotate_right(a, 39))
big_sigma1(a) ==
  xor64(xor64(rotate_right(a, 14), rotate_right(a, 18)), rotate_right(a, 41))
bool3ary_202(a, b, c) == xor64(c, and64(a, xor64(b, c)))
bool3ary_232(a, b, c) == xor64(xor64(and64(a, b), and64(a, c)), and64(b, c))
\* rotate_state turning the other way: s[0] = s[1], ..., s[7] = tmp
rotate_state_left(s) == <<s[2], s[3], s[4], s[5], s[6], s[7], s[8], s[1]>>
rotate_state(s) == <<s[8], s[1], s[2], s[3], s[4], s[5], s[6], s[7]>>

sha_round(s, x) ==
  LET t  == wrapping_add(wrapping_add(wrapping_add(x, s[8]), big_sigma1(s[5])),
                         bool3ary_202(s[5], s[6], s[7]))
      s7 == wrapping_add(wrapping_add(t, big_sigma0(s[1])),
                         bool3ary_232(s[1], s[2], s[3]))
      s3 == wrapping_add(s[4], t)
  IN  rotate_state([s EXCEPT ![8] = s7, ![4] = s3])

\* accumulate_state with dst[i] = src[i]
accumulate_state_assign(dst, src) == src
accumulate_state(dst, src) ==
  Tuple([w \in 1..SHA512_HASH_WORDS_NUM |-> wrapping_add(dst[w], src[w])])

\* -------------------------------------------------------- schedule expansion
\* fn_sha512_update_x: one expansion step on the 8 vectors x, k the vector of
\* round constants loaded from k64_p; yields the rotated x and the returned y
sha512_update_x(x, k) ==
  LET t0a == ALIGNR8(x[2], x[1])
      t3a == ALIGNR8(x[6], x[5])
      t2a == SRL64(t0a, 1)
      x0a == ADD64(x[1], t3a)
      t3b == SRL64(t0a, 7)
      t1a == SLL64(t0a, 64 - 8)
      t0b == XOR(t3b, t2a)
      t2b == SRL64(t2a, 8 - 1)
      t0c == XOR(t0b, t1a)
      t1b == SLL64(t1a, 8 - 1)
      t0d == XOR(t0c, t2b)
      t0e == XOR(t0d, t1b)
      t3c == SRL64(x[8], 6)
      t2c == SLL64(x[8], 64 - 61)
      x0b == ADD64(x0a, t0e)
      t1c == SRL64(x[8], 19)
      t3d == XOR(t3c, t2c)
      t2d == SLL64(t2c, 61 - 19)
      t3e == XOR(t3d, t1c)
      t1d == SRL64(t1c, 61 - 19)
      t3f == XOR(t3e, t2d)
      t3g == XOR(t3f, t1d)
      x0c == ADD64(x0b, t3g)
  IN  [x |-> <<x[2], x[3], x[4], x[5], x[6], x[7], x[8], x0c>>,
       y |-> ADD64(x0c, k)]

\* ------------------------------------------------------------ block loading
\* MsgSchedule::default() and [_mm_setzero_si128(); 8] / [_mm256_setzero_si256(); 8]
ZeroSchedule == [k \in 1..SHA512_BLOCK_WORDS_NUM |-> Zero64]
ZeroX(lanes) == [n \in 1..8 |-> [e \in 1..lanes |-> Zero64]]
MASK_avx == mm_setr_epi32(67438087, 66051, 202182159, 134810123)
MASK_avx2 ==
  mm256_set_epi64x(<<3599, 3085, 2571, 2057>>, <<1543, 1029, 515, 1>>,
                   <<3599, 3085, 2571, 2057>>, <<1543, 1029, 515, 1>>)

\* load_data_avx without the byte shuffle: the words are read little-endian
load_data_avx_iter_noshuffle(blocks, data, n) ==
  LET src == data + SizeOfM128 * n
      xn  == LoadBlockBytes(blocks, src)
  IN  [x |-> xn, y |-> ADD64(xn, LOAD(K64, 2 * n, 2)),
       ld |-> {src}, k |-> 2 * n, st |-> 2 * n]

\* iteration $i of load_data_avx: the shuffled x[$i] and the stored y, with
\* the byte offset of the 16-byte load and the start indices into K64 and ms
load_data_avx_iter(blocks, data, n) ==
  LET src == data + SizeOfM128 * n
      xn  == shuffle_epi8(LoadBlockBytes(blocks, src), MASK_avx)
  IN  [x |-> xn, y |-> ADD64(xn, LOAD(K64, 2 * n, 2)),
       ld |-> {src}, k |-> 2 * n, st |-> 2 * n]

RECURSIVE StoreIters(_, _, _, _)
\* the _mm_store_si128 of iterations n.. of an unrolled loader: vals[m] goes
\* to arr[sts[m]], arr[sts[m] + 1]
StoreIters(arr, sts, vals, n) ==
  IF n > Len(sts) THEN arr
  ELSE StoreIters(Store128(arr, sts[n], vals[n]), sts, vals, n + 1)

\* load_data_avx: data is the byte offset of the block inside blocks
load_data_avx(x, ms, blocks, data) ==
  LET it == Tuple([n \in 1..8 |-> load_data_avx_iter(blocks, data, n - 1)])
      st == [n \in 1..8 |-> it[n].st]
  IN  [x  |-> [n \in 1..8 |-> it[n].x],
       ms |-> StoreIters(ms, st, [n \in 1..8 |-> it[n].y], 1),
       ld |-> UNION {it[n].ld : n \in 1..8},
       k  |-> {it[n].k : n \in 1..8},
       st |-> {it[n].st : n \in 1..8}]

\* iteration $i of load_data_avx2: the shuffled x[$i] and y, with the byte
\* offsets of the two 16-byte loads and the start indices into K64X4, ms and t2
load_data_avx2_iter(x, blocks, data, n) ==
  LET hi == data + SizeOfM128 * n
      lo == data + SizeOfM128 * (n + 1)
      x1 == insertf128_1(x[n + 1], LoadBlockBytes(blocks, hi))
      x2 == insertf128_0(x1, LoadBlockBytes(blocks, lo))
      x3 == shuffle_epi8(x2, MASK_avx2)
  IN  [x |-> x3, y |-> ADD64(x3, LOAD(K64X4, 4 * n, 4)),
       ld |-> {hi, lo}, k |-> 4 * n, st |-> 2 * n]

\* load_data_avx2: data is the byte offset of the pair's first block
load_data_avx2(x, ms, t2, blocks, data) ==
  LET it == Tuple([n \in 1..8 |-> load_data_avx2_iter(x, blocks, data, n - 1)])
      st == [n \in 1..8 |-> it[n].st]
  IN  [x  |-> [n \in 1..8 |-> it[n].x],
       ms |-> StoreIters(ms, st, [n \in 1..8 |-> extracti128_0(it[n].y)], 1),
       t2 |-> StoreIters(t2, st, [n \in 1..8 |-> extracti128_1(it[n].y)], 1),
       ld |-> UNION {it[n].ld : n \in 1..8},
       k  |-> {it[n].k : n \in 1..8},
       st |-> {it[n].st : n \in 1..8}]

\* ------------------------------------------------ narrow compressor (avx)
\* one iteration of the inner loop of rounds_0_63_avx on current_state cs,
\* x = xs and ms = sched, with k64_idx = k and loop variable j = jj
rounds_0_63_avx_iter(cs, xs, sched, k, jj) ==
  LET u == sha512_update_x(xs, LOAD(K64, k, 2))
  IN  [cs |-> sha_round(sha_round(cs, At(sched, 2 * jj)), At(sched, 2 * jj + 1)),
       x  |-> u.x,
       ms |-> Store128(sched, 2 * jj, u.y)]

RECURSIVE rounds_0_63_avx(_)
\* tr[n + 1]: current_state, x and ms after n iterations; 4 * 8 iterations
rounds_0_63_avx(tr) ==
  IF Len(tr) > 4 * 8 THEN tr
  ELSE LET n == Len(tr) - 1
           c == tr[n + 1]
       IN  rounds_0_63_avx(Append(tr,
             rounds_0_63_avx_iter(c.cs, c.x, c.ms, SHA512_BLOCK_WORDS_NUM + 2 * n, n % 8)))

RECURSIVE rounds_64_79(_, _)
\* tr[n + 1]: current_state after rounds 64 .. 64 + n - 1
rounds_64_79(tr, sched) ==
  IF Len(tr) > 80 - 64 THEN tr
  ELSE rounds_64_79(Append(tr, sha_round(tr[Len(tr)], At(sched, (64 + Len(tr) - 1) % 16))),
                    sched)

\* sha512_compress_x86_64_avx: *state after compressing one block
sha512_compress_x86_64_avx(st, block) ==
  LET ld == load_data_avx(ZeroX(2), ZeroSchedule, <<block>>, 0)
      a  == rounds_0_63_avx(<<[cs |-> st, x |-> ld.x, ms |-> ld.ms]>>)[4 * 8 + 1]
      b  == rounds_64_79(<<a.cs>>, a.ms)[80 - 64 + 1]
  IN  accumulate_state(st, b)

RECURSIVE avx_states(_, _)
\* sts[n + 1]: *state after the narrow compressor has taken the first n blocks
avx_states(sts, blocks) ==
  IF Len(sts) > Len(blocks) THEN sts
  ELSE avx_states(Append(sts, sha512_compress_x86_64_avx(sts[Len(sts)], blocks[Len(sts)])),
                  blocks)

\* ------------------------------------------------- scalar compressor (soft)
\* the 16 big-endian u64 words of a 128-byte block
BlockWords(block) ==
  Tuple([k \in 1..SHA512_BLOCK_WORDS_NUM |->
     LET o == SizeOfU64 * (k - 1)
     IN  <<256 * block[o + 7] + block[o + 8], 256 * block[o + 5] + block[o + 6],
           256 * block[o + 3] + block[o + 4], 256 * block[o + 1] + block[o + 2]>>])
small_sigma0(a) == xor64(xor64(rotate_right(a, 1), rotate_right(a, 8)), shr64(a, 7))
small_sigma1(a) == xor64(xor64(rotate_right(a, 19), rotate_right(a, 61)), shr64(a, 6))
Ch(a, b, c) == xor64(and64(a, b), and64(not64(a), c))
Maj(a, b, c) == xor64(xor64(and64(a, b), and64(a, c)), and64(b, c))

RECURSIVE ExpandW(_)
\* the 80 message-schedule words W[0..80) grown from the 16 block words
ExpandW(w) ==
  IF Len(w) >= SHA512_ROUNDS_NUM THEN w
  ELSE LET n == Len(w)
       IN  ExpandW(Append(w,
             wrapping_add(wrapping_add(w[n - 15], w[n - 6]),
                          wrapping_add(small_sigma0(w[n - 14]), small_sigma1(w[n - 1])))))
MessageSchedule(block) == ExpandW(BlockWords(block))

\* one round of the standard on (a, b, c, d, e, f, g, h) with word wk = W[t] + K[t]
soft_round(s, wk) ==
  LET T1 == wrapping_add(wrapping_add(wrapping_add(s[8], big_sigma1(s[5])),
                                      Ch(s[5], s[6], s[7])), wk)
      T2 == wrapping_add(big_sigma0(s[1]), Maj(s[1], s[2], s[3]))
  IN  <<wrapping_add(T1, T2), s[1], s[2], s[3], wrapping_add(s[4], T1), s[5], s[6], s[7]>>

RECURSIVE soft_rounds(_, _)
\* tr: the working states so far, tr[1] the seed; one more per round up to 80
soft_rounds(tr, w) ==
  IF Len(tr) > SHA512_ROUNDS_NUM THEN tr
  ELSE LET t == Len(tr)
       IN  soft_rounds(Append(tr, soft_round(tr[t], wrapping_add(w[t], K64[t]))), w)

\* compression of one block by the scalar path
soft_compress_block(st, block) ==
  LET r == soft_rounds(<<st>>, MessageSchedule(block))[SHA512_ROUNDS_NUM + 1]
  IN  Tuple([w \in 1..SHA512_HASH_WORDS_NUM |-> wrapping_add(st[w], r[w])])

RECURSIVE soft_states(_, _)
\* the State after each of the first Len(sts) - 1 blocks, sts[1] the initial one
soft_states(sts, blocks) ==
  IF Len(sts) > Len(blocks) THEN sts
  ELSE soft_states(Append(sts, soft_compress_block(sts[Len(sts)], blocks[Len(sts)])),
                   blocks)
\* super::soft::compress
soft_compress(st, blocks) == soft_states(<<st>>, blocks)[Len(blocks) + 1]

\* -------------------------------------------------------------------- inputs
\* the caller's State values: the SHA-512 initialization vector and a State
\* whose every addition wraps
IV ==
  <<<<51464, 62396, 58983, 27145>>, <<42811, 33994, 44677, 47975>>,
    <<63531, 65172, 62322, 15470>>, <<14065, 24349, 62778, 42319>>,
    <<33489, 44518, 21119, 20750>>, <<27679, 11070, 26764, 39685>>,
    <<48491, 64321, 55723, 8067>>, <<8569, 4990, 52505, 23520>>>>
AllOnes ==
  [w \in 1..SHA512_HASH_WORDS_NUM |->
     <<LimbBase - 1, LimbBase - 1, LimbBase - 1, LimbBase - 1>>]
InitStates == {IV, AllOnes}

\* the padded single block of the message "abc", and a block whose 128 bytes
\* all differ from their neighbours
BlockAbc ==
  Tuple([b \in 1..SHA512_BLOCK_BYTE_LEN |->
     CASE b = 1 -> 97 [] b = 2 -> 98 [] b = 3 -> 99 [] b = 4 -> 128
       [] b = SHA512_BLOCK_BYTE_LEN -> 24 [] OTHER -> 0])
BlockRamp == Tuple([b \in 1..SHA512_BLOCK_BYTE_LEN |-> (37 * (b - 1) + 11) % 256])
BlockPool == {BlockAbc, BlockRamp}
BlockSeqs == UNION {[1..n -> BlockPool] : n \in 0..MaxBlocks}

\* --------------------------------------------------------------------- state
VARIABLES
  state,          \* state: &mut [u64; 8]
  blocks,         \* blocks: &[[u8; 128]]
  init_state,     \* the value of *state when compress was called
  pc,             \* the statement about to run
  path,           \* which compressor is running: "avx2", "avx" inside it, or "soft"
  start_block,    \* sha512_compress_x86_64_avx2::start_block
  i,              \* the pair loop's i
  ms,             \* ms: MsgSchedule
  t2,             \* t2: RoundStates
  x,              \* x: [__m128i; 8] (narrow) or [__m256i; 8] (wide)
  current_state,  \* current_state: State
  k_idx,          \* k64_idx / k64x4_idx
  oi,             \* outer loop variable of rounds_0_63_avx / rounds_0_63_avx2
  j,              \* inner loop variable j
  rnd,            \* loop variable of rounds_64_79 / index in process_second_block
  log,            \* one entry per accumulate_state call: block index, caller, *state after
  fed,            \* schedule words passed to sha_round since current_state was seeded
  acc,            \* the memory accesses of the last step, by start index
  wr              \* scratch entries stored since the current pair iteration began

vars ==
  <<state, blocks, init_state, pc, path, start_block, i, ms, t2, x,
    current_state, k_idx, oi, j, rnd, log, fed, acc, wr>>

ZeroRoundStates == [k \in 1..SHA512_ROUNDS_NUM |-> Zero64]
ZeroState == [k \in 1..SHA512_HASH_WORDS_NUM |-> Zero64]

\* acc: ld = byte offsets of 16-byte block loads; k64, k64x4 = start indices of
\* constant loads; ms_st, t2_st = start indices of two-word stores; ms_rd,
\* t2_rd = indices of one-word reads; stale = scratch entries read by this step
\* of the wide path that no store of the current pair iteration had written
NoAcc ==
  [ld |-> {}, k64 |-> {}, k64x4 |-> {}, ms_st |-> {}, t2_st |-> {},
   ms_rd |-> {}, t2_rd |-> {}, stale |-> {}]
NoWr == [x |-> {}, ms |-> {}, t2 |-> {}]
\* the entries covered by two-word stores starting at the indices in S
TwoWords(S) == UNION {{n, n + 1} : n \in S}

Init ==
  /\ state \in InitStates
  /\ init_state = state
  /\ blocks \in BlockSeqs
  /\ pc = "compress"
  /\ path = "none"
  /\ start_block = 0
  /\ i = 0
  /\ ms = ZeroSchedule
  /\ t2 = ZeroRoundStates
  /\ x = ZeroX(4)
  /\ current_state = ZeroState
  /\ k_idx = 0
  /\ oi = 0
  /\ j = 0
  /\ rnd = 0
  /\ log = <<>>
  /\ fed = <<>>
  /\ acc = NoAcc
  /\ wr = NoWr

\* ------------------------------------------------------------------- actions
\* the odd-count test inverted: blocks.len() & 0b1 == 0
IsOddCount_even(n) == n % 2 = 0
\* line 32: blocks.len() & 0b1 != 0
IsOddCount(n) == n % 2 # 0
\* the pair loop advancing by one block
StepBy_one(n) == n + 1
\* line 41: step_by(2)
StepBy(n) == n + 2
\* the t2 index counted from i = 0 although the loop runs over 1..5
t2_index_from0(n, m) == (16 * (n - 1)) + 2 * m
\* the t2 index one group of 16 too far
t2_index_next(n, m) == (16 * (n + 1)) + 2 * m
\* line 170: (16 * i) + 2 * j
t2_index(n, m) == (16 * n) + 2 * m
\* compress: the capability gate selects the wide path or the scalar path
Compress ==
  /\ pc = "compress"
  /\ \E avx2_cpuid \in BOOLEAN :
       IF avx2_cpuid
       THEN /\ pc' = "avx2"
            /\ path' = "avx2"
            /\ UNCHANGED <<state, log>>
       ELSE /\ pc' = "done"
            /\ path' = "soft"
            /\ \E sts \in {soft_states(<<state>>, blocks)} :
                 /\ state' = sts[Len(blocks) + 1]
                 /\ log' = [n \in 1..Len(blocks) |->
                             [block |-> n - 1, by |-> "soft", out |-> sts[n + 1]]]
  /\ acc' = NoAcc
  /\ UNCHANGED <<blocks, init_state, start_block, i, ms, t2, x, current_state,
                 k_idx, oi, j, rnd, fed, wr>>

\* sha512_compress_x86_64_avx2, lines 30-33: start_block, the odd-count test
OddCheck ==
  /\ pc = "avx2"
  /\ start_block' = 0
  /\ pc' = IF IsOddCount(Len(blocks)) THEN "avx_load" ELSE "alloc"
  /\ acc' = NoAcc
  /\ UNCHANGED <<state, blocks, init_state, path, i, ms, t2, x, current_state,
                 k_idx, oi, j, rnd, log, fed, wr>>

\* sha512_compress_x86_64_avx on blocks[0], lines 59-64: fresh ms and x,
\* current_state seeded from *state, load_data_avx
AvxLoad ==
  /\ pc = "avx_load"
  /\ \E ld \in {load_data_avx(ZeroX(2), ZeroSchedule, blocks, 0)} :
         /\ x' = ld.x
         /\ ms' = ld.ms
         /\ acc' = [NoAcc EXCEPT !.ld = ld.ld, !.k64 = ld.k, !.ms_st = ld.st]
  /\ current_state' = state
  /\ path' = "avx"
  /\ k_idx' = SHA512_BLOCK_WORDS_NUM
  /\ oi' = 0
  /\ j' = 0
  /\ fed' = <<>>
  /\ pc' = "rounds_0_63_avx"
  /\ UNCHANGED <<state, blocks, init_state, start_block, i, t2, rnd, log, wr>>

\* one iteration of the inner loop of rounds_0_63_avx
Rounds0_63Avx ==
  /\ pc = "rounds_0_63_avx"
  /\ \E r \in {rounds_0_63_avx_iter(current_state, x, ms, k_idx, j)} :
         /\ x' = r.x
         /\ current_state' = r.cs
         /\ ms' = r.ms
  /\ fed' = fed \o <<At(ms, 2 * j), At(ms, 2 * j + 1)>>
  /\ acc' = [NoAcc EXCEPT !.k64 = {k_idx}, !.ms_rd = {2 * j, 2 * j + 1},
                          !.ms_st = {2 * j}]
  /\ k_idx' = k_idx + 2
  /\ IF j + 1 < 8
     THEN /\ j' = j + 1
          /\ UNCHANGED <<oi, pc, rnd>>
     ELSE IF oi + 1 < 4
     THEN /\ j' = 0
          /\ oi' = oi + 1
          /\ UNCHANGED <<pc, rnd>>
     ELSE /\ pc' = "rounds_64_79"
          /\ rnd' = 64
          /\ UNCHANGED <<oi, j>>
  /\ UNCHANGED <<state, blocks, init_state, path, start_block, i, t2, log, wr>>

\* one iteration of rounds_64_79 (both paths)
Rounds64_79 ==
  /\ pc = "rounds_64_79"
  /\ current_state' = sha_round(current_state, At(ms, rnd % 16))
  /\ fed' = Append(fed, At(ms, rnd % 16))
  /\ acc' = [NoAcc EXCEPT !.ms_rd = {rnd % 16},
                          !.stale = IF path = "avx2"
                                    THEN {<<"ms", n>> : n \in {rnd % 16} \ wr.ms}
                                    ELSE {}]
  /\ IF rnd + 1 < 80
     THEN /\ rnd' = rnd + 1
          /\ UNCHANGED pc
     ELSE /\ pc' = IF path = "avx" THEN "accumulate_avx" ELSE "accumulate_first"
          /\ UNCHANGED rnd
  /\ UNCHANGED <<state, blocks, init_state, path, start_block, i, ms, t2, x,
                 k_idx, oi, j, log, wr>>

\* sha512_compress_x86_64_avx line 67, then line 34 of the caller
AccumulateAvx ==
  /\ pc = "accumulate_avx"
  /\ state' = accumulate_state(state, current_state)
  /\ log' = Append(log, [block |-> 0, by |-> "avx", out |-> state'])
  /\ start_block' = start_block + 1
  /\ path' = "avx2"
  /\ acc' = NoAcc
  /\ pc' = "alloc"
  /\ UNCHANGED <<blocks, init_state, i, ms, t2, x, current_state,
                 k_idx, oi, j, rnd, fed, wr>>

\* lines 37-41: ms, t2 and x are created zeroed, the pair loop starts
Alloc ==
  /\ pc = "alloc"
  /\ ms' = ZeroSchedule
  /\ t2' = ZeroRoundStates
  /\ x' = ZeroX(4)
  /\ i' = start_block
  /\ acc' = NoAcc
  /\ pc' = "for_pairs"
  /\ UNCHANGED <<state, blocks, init_state, path, start_block, current_state,
                 k_idx, oi, j, rnd, log, fed, wr>>

\* line 41: the iterator (start_block..blocks.len()).step_by(2) yields i or ends
ForPairs ==
  /\ pc = "for_pairs"
  /\ pc' = IF i < Len(blocks) THEN "load_data_avx2" ELSE "done"
  /\ wr' = NoWr
  /\ acc' = NoAcc
  /\ UNCHANGED <<state, blocks, init_state, path, start_block, i, ms, t2, x,
                 current_state, k_idx, oi, j, rnd, log, fed>>

\* line 42: load_data_avx2 with data = blocks.as_ptr().add(i)
LoadDataAvx2 ==
  /\ pc = "load_data_avx2"
  /\ \E ld \in {load_data_avx2(x, ms, t2, blocks, SHA512_BLOCK_BYTE_LEN * i)} :
         /\ x' = ld.x
         /\ ms' = ld.ms
         /\ t2' = ld.t2
         /\ acc' = [NoAcc EXCEPT !.ld = ld.ld, !.k64x4 = ld.k,
                                 !.ms_st = ld.st, !.t2_st = ld.st]
         /\ wr' = [x  |-> wr.x \cup 0..7,
                   ms |-> wr.ms \cup TwoWords(ld.st),
                   t2 |-> wr.t2 \cup TwoWords(ld.st)]
  /\ pc' = "seed_first"
  /\ UNCHANGED <<state, blocks, init_state, path, start_block, i, current_state,
                 k_idx, oi, j, rnd, log, fed>>

\* line 45: the working copy for the first block of the pair
SeedFirst ==
  /\ pc = "seed_first"
  /\ current_state' = state
  /\ fed' = <<>>
  /\ k_idx' = 2 * SHA512_BLOCK_WORDS_NUM
  /\ oi' = 1
  /\ j' = 0
  /\ acc' = NoAcc
  /\ pc' = "rounds_0_63_avx2"
  /\ UNCHANGED <<state, blocks, init_state, path, start_block, i, ms, t2, x,
                 rnd, log, wr>>

\* one iteration of the inner loop of rounds_0_63_avx2
Rounds0_63Avx2 ==
  /\ pc = "rounds_0_63_avx2"
  /\ \E u \in {sha512_update_x(x, LOAD(K64X4, k_idx, 4))}, t2i \in {t2_index(oi, j)} :
         /\ x' = u.x
         /\ current_state' =
              sha_round(sha_round(current_state, At(ms, 2 * j)), At(ms, 2 * j + 1))
         /\ ms' = Store128(ms, 2 * j, extracti128_0(u.y))
         /\ t2' = Store128(t2, t2i, extracti128_1(u.y))
         /\ acc' = [NoAcc EXCEPT
                      !.k64x4 = {k_idx}, !.ms_rd = {2 * j, 2 * j + 1},
                      !.ms_st = {2 * j}, !.t2_st = {t2i},
                      !.stale = {<<"x", n>> : n \in (0..7) \ wr.x}
                                \cup {<<"ms", n>> : n \in {2 * j, 2 * j + 1} \ wr.ms}]
         /\ wr' = [wr EXCEPT !.ms = @ \cup TwoWords({2 * j}),
                             !.t2 = @ \cup TwoWords({t2i})]
  /\ fed' = fed \o <<At(ms, 2 * j), At(ms, 2 * j + 1)>>
  /\ k_idx' = k_idx + 4
  /\ IF j + 1 < 8
     THEN /\ j' = j + 1
          /\ UNCHANGED <<oi, pc, rnd>>
     ELSE IF oi + 1 < 5
     THEN /\ j' = 0
          /\ oi' = oi + 1
          /\ UNCHANGED <<pc, rnd>>
     ELSE /\ pc' = "rounds_64_79"
          /\ rnd' = 64
          /\ UNCHANGED <<oi, j>>
  /\ UNCHANGED <<state, blocks, init_state, path, start_block, i, log>>

\* line 48: the first block of the pair is accumulated into *state
AccumulateFirst ==
  /\ pc = "accumulate_first"
  /\ state' = accumulate_state(state, current_state)
  /\ log' = Append(log, [block |-> i, by |-> "first", out |-> state'])
  /\ acc' = NoAcc
  /\ pc' = "seed_second"
  /\ UNCHANGED <<blocks, init_state, path, start_block, i, ms, t2, x,
                 current_state, k_idx, oi, j, rnd, fed, wr>>

\* line 51 left out: the second block runs on the first block's working copy
SeedSecond_noreseed ==
  /\ pc = "seed_second"
  /\ current_state' = current_state
  /\ fed' = <<>>
  /\ rnd' = 0
  /\ acc' = NoAcc
  /\ pc' = "process_second_block"
  /\ UNCHANGED <<state, blocks, init_state, path, start_block, i, ms, t2, x,
                 k_idx, oi, j, log, wr>>

\* line 51: the working copy for the second block of the pair
SeedSecond ==
  /\ pc = "seed_second"
  /\ current_state' = state
  /\ fed' = <<>>
  /\ rnd' = 0
  /\ acc' = NoAcc
  /\ pc' = "process_second_block"
  /\ UNCHANGED <<state, blocks, init_state, path, start_block, i, ms, t2, x,
                 k_idx, oi, j, log, wr>>

\* one iteration of process_second_block
ProcessSecondBlock ==
  /\ pc = "process_second_block"
  /\ current_state' = sha_round(current_state, At(t2, rnd))
  /\ fed' = Append(fed, At(t2, rnd))
  /\ acc' = [NoAcc EXCEPT !.t2_rd = {rnd},
                          !.stale = {<<"t2", n>> : n \in {rnd} \ wr.t2}]
  /\ IF rnd + 1 < SHA512_ROUNDS_NUM
     THEN /\ rnd' = rnd + 1
          /\ UNCHANGED pc
     ELSE /\ pc' = "accumulate_second"
          /\ UNCHANGED rnd
  /\ UNCHANGED <<state, blocks, init_state, path, start_block, i, ms, t2, x,
                 k_idx, oi, j, log, wr>>

\* line 53, then the iterator advances
AccumulateSecond ==
  /\ pc = "accumulate_second"
  /\ state' = accumulate_state(state, current_state)
  /\ log' = Append(log, [block |-> i + 1, by |-> "second", out |-> state'])
  /\ i' = StepBy(i)
  /\ acc' = NoAcc
  /\ pc' = "for_pairs"
  /\ UNCHANGED <<blocks, init_state, path, start_block, ms, t2, x,
                 current_state, k_idx, oi, j, rnd, fed, wr>>

Next ==
  \/ Compress
  \/ OddCheck
  \/ AvxLoad
  \/ Rounds0_63Avx
  \/ Rounds64_79
  \/ AccumulateAvx
  \/ Alloc
  \/ ForPairs
  \/ LoadDataAvx2
  \/ SeedFirst
  \/ Rounds0_63Avx2
  \/ AccumulateFirst
  \/ SeedSecond
  \/ ProcessSecondBlock
  \/ AccumulateSecond

Spec == Init /\ [][Next]_vars

\* ------------------------------------------------------------------- claims
\* the wide path has returned
WideDone == pc = "done" /\ path = "avx2"
\* control is inside sha512_compress_x86_64_avx (the odd leading block)
InNarrow ==
  \/ pc \in {"avx_load", "rounds_0_63_avx", "accumulate_avx"}
  \/ pc = "rounds_64_79" /\ path = "avx"
\* control is inside the body of the pair loop
InPair ==
  \/ pc \in {"load_data_avx2", "seed_first", "rounds_0_63_avx2", "accumulate_first",
             "seed_second", "process_second_block", "accumulate_second"}
  \/ pc = "rounds_64_79" /\ path = "avx2"
\* *state when the current pair iteration began
PrePair == IF i = 0 THEN init_state ELSE log[i].out
\* W[t] + K[t] for the 80 rounds of a block, W by the standard's recurrence
ScheduleWithK(block) ==
  LET w == MessageSchedule(block)
  IN  Tuple([t \in 1..SHA512_ROUNDS_NUM |-> wrapping_add(w[t], K64[t])])

\* sanity: the SHA-512 digest prefix of "abc" from one compression of its block
KnownVector ==
  (pc = "done" /\ init_state = IV /\ blocks = <<BlockAbc>>)
    => /\ state[1] = <<31418, 37729, 13729, 56751>>
       /\ state[2] = <<16689, 44576, 29513, 52289>>

\* C1: when the wide path returns, State is bit-identical to the State obtained
\* by applying the single-block (narrow) compression to the same N blocks one
\* at a time, in index order, each from the previous result.
C1_WideEqualsBlockByBlock ==
  WideDone => state = avx_states(<<init_state>>, blocks)[Len(blocks) + 1]

\* sanity: the narrow compressor and the scalar compressor agree block by block
NarrowEqualsSoft ==
  pc = "compress" =>
    avx_states(<<init_state>>, blocks) = soft_states(<<init_state>>, blocks)

\* which call accumulates block n of a sequence of N blocks according to C2
ExpectedBy(n, N) ==
  IF N % 2 = 1
  THEN IF n = 0 THEN "avx" ELSE IF n % 2 = 1 THEN "first" ELSE "second"
  ELSE IF n % 2 = 0 THEN "first" ELSE "second"

\* C2: the wide path accumulates exactly N times, block 0 through the narrow
\* compressor when N is odd and the remaining blocks as consecutive pairs
\* (i, i+1) in index order, no index skipped or repeated, and every pair start
\* index i has i + 1 < N.
C2_PairingCoversEveryBlockOnce ==
  path \in {"avx", "avx2"} =>
    /\ Len(log) <= Len(blocks)
    /\ \A n \in 1..Len(log) :
         /\ log[n].block = n - 1
         /\ log[n].by = ExpectedBy(n - 1, Len(blocks))
    /\ pc = "done" => Len(log) = Len(blocks)
    /\ InNarrow => Len(blocks) % 2 = 1 /\ log = <<>>
    /\ InPair => /\ i + 1 < Len(blocks)
                 /\ i % 2 = Len(blocks) % 2
                 /\ Len(log) \in {i, i + 1}
C2_Witness == WideDone /\ Len(blocks) = 3 /\ Len(log) = 3

\* C3: with an empty block sequence State keeps all 8 words, the odd-block
\* branch and the pair loop body are never entered and nothing is accumulated.
C3_EmptyIsNoOp ==
  Len(blocks) = 0 =>
    /\ state = init_state
    /\ log = <<>>
    /\ ~InNarrow
    /\ ~InPair
C3_Witness == WideDone /\ Len(blocks) = 0

\* C4: in the narrow and the wide path State changes only in an
\* accumulate_state step, taken after all 80 rounds of the block have run on
\* the working copy, and that step sets State[w] to State[w] + working[w]
\* mod 2^64 for all 8 words; every other step leaves State as it was.
C4_StateWrittenOnlyByAccumulate ==
  [][path' # "soft" =>
       IF pc \in {"accumulate_avx", "accumulate_first", "accumulate_second"}
       THEN /\ Len(fed) = SHA512_ROUNDS_NUM
            /\ \A w \in 1..SHA512_HASH_WORDS_NUM :
                 state'[w] = wrapping_add(state[w], current_state[w])
       ELSE state' = state]_vars
C4_Witness ==
  pc = "process_second_block" /\ rnd = 40 /\ state # init_state
    /\ current_state # state

\* C5: after load_data_avx2 for the pair (A, B) = (blocks[i], blocks[i+1]),
\* ms[k] = A_word[k] + K[k] and t2[k] = B_word[k] + K[k] for all k in 0..16,
\* X_word[k] the k-th big-endian word of block X.
C5_PairSchedulesLoaded ==
  pc = "seed_first" =>
    \A k \in 1..SHA512_BLOCK_WORDS_NUM :
      /\ ms[k] = wrapping_add(BlockWords(blocks[i + 1])[k], K64[k])
      /\ t2[k] = wrapping_add(BlockWords(blocks[i + 2])[k], K64[k])

\* C6: the working copy of a pair's second block is seeded after the first
\* block has been accumulated and equals the State that accumulation left;
\* the working copy of a pair's first block is seeded from the State the
\* previous pair (or the odd leading block, or the caller) left.
C6_SecondBlockStartsFromFirstOutput ==
  /\ (pc = "process_second_block" /\ fed = <<>>) =>
       /\ Len(log) = i + 1
       /\ log[i + 1].by = "first"
       /\ current_state = log[i + 1].out
       /\ state = log[i + 1].out
  /\ (pc = "rounds_0_63_avx2" /\ fed = <<>>) =>
       /\ Len(log) = i
       /\ current_state = PrePair
       /\ state = PrePair
C6_Witness ==
  pc = "process_second_block" /\ fed = <<>> /\ i >= 1 /\ current_state # PrePair

\* C7: in the narrow path the word passed to the round function at round t is
\* W[t] + K[t], W the block's big-endian words extended by the recurrence over
\* raw words; slot s of the circular buffer holds the word of the next round
\* that reads it, and exactly 80 rounds run before the accumulation.
C7_NarrowScheduleWords ==
  path = "avx" =>
    LET wk == ScheduleWithK(blocks[1])
    IN  /\ \A t \in 1..Len(fed) : fed[t] = wk[t]
        /\ pc = "rounds_0_63_avx" =>
             /\ Len(fed) = 16 * oi + 2 * j
             /\ \A n \in 0..(SHA512_BLOCK_WORDS_NUM - 1) :
                  At(ms, n) = wk[16 * oi + n + (IF n < 2 * j THEN 16 ELSE 0) + 1]
        /\ pc = "rounds_64_79" =>
             /\ Len(fed) = rnd
             /\ \A n \in 0..(SHA512_BLOCK_WORDS_NUM - 1) : At(ms, n) = wk[64 + n + 1]
        /\ pc = "accumulate_avx" => Len(fed) = SHA512_ROUNDS_NUM
C7_Witness == pc = "accumulate_avx" /\ Len(fed) = SHA512_ROUNDS_NUM

\* the result C8 states for one round on (s0, ..., s7) with schedule word w
RoundAsClaimed(s, w) ==
  LET t == wrapping_add(wrapping_add(wrapping_add(w, s[8]), big_sigma1(s[5])),
                        Ch(s[5], s[6], s[7]))
  IN  <<wrapping_add(wrapping_add(t, big_sigma0(s[1])), Maj(s[1], s[2], s[3])),
        s[1], s[2], s[3], wrapping_add(s[4], t), s[5], s[6], s[7]>>

\* C8: every application of sha_round to (s0, ..., s7) and word w yields
\* (t + Sigma0(s0) + Maj(s0,s1,s2), s0, s1, s2, s3 + t, s4, s5, s6) with
\* t = w + s7 + Sigma1(s4) + Ch(s4,s5,s6), additions mod 2^64.
C8_RoundFunction ==
  [][/\ pc \in {"rounds_64_79", "process_second_block"} =>
          current_state' = RoundAsClaimed(current_state, fed'[Len(fed')])
     /\ pc \in {"rounds_0_63_avx", "rounds_0_63_avx2"} =>
          current_state' =
            RoundAsClaimed(RoundAsClaimed(current_state, fed'[Len(fed') - 1]),
                           fed'[Len(fed')])]_vars
C8_Witness == pc = "rounds_64_79" /\ path = "avx" /\ rnd = 70 /\ Len(fed) = 70

\* C9: no step of the wide path reads an entry of x, ms or t2 that has not
\* been stored since the current pair iteration began, although the three
\* buffers are created once and never reset between iterations.
C9_NoStaleScratchReachesARound == acc.stale = {}
C9_Witness ==
  pc = "accumulate_second" /\ i >= 2 /\ acc.t2_rd = {SHA512_ROUNDS_NUM - 1}
    /\ t2 # ZeroRoundStates

\* C10: every 16-byte block load stays inside the block(s) being processed
\* and inside blocks, and every store into t2 and ms and every constant load
\* starts at an index that keeps the whole access inside its array.
C10_AccessesInBounds ==
  /\ \A o \in acc.ld :
       /\ o >= 0
       /\ o + SizeOfM128 <= SHA512_BLOCK_BYTE_LEN * Len(blocks)
       /\ IF path = "avx"
          THEN o + SizeOfM128 <= SHA512_BLOCK_BYTE_LEN
          ELSE /\ i + 1 < Len(blocks)
               /\ SHA512_BLOCK_BYTE_LEN * i <= o
               /\ o + SizeOfM128 <= SHA512_BLOCK_BYTE_LEN * (i + 2)
  /\ acc.t2_st \subseteq 0..(SHA512_ROUNDS_NUM - 2)
  /\ acc.ms_st \subseteq 0..(SHA512_BLOCK_WORDS_NUM - 2)
  /\ acc.k64 \subseteq 0..(Len(K64) - 2)
  /\ acc.k64x4 \subseteq 0..(Len(K64X4) - 4)
  /\ acc.ms_rd \subseteq 0..(SHA512_BLOCK_WORDS_NUM - 1)
  /\ acc.t2_rd \subseteq 0..(SHA512_ROUNDS_NUM - 1)
C10_Witness ==
  /\ path = "avx2"
  /\ acc.t2_st = {SHA512_ROUNDS_NUM - 2}
  /\ acc.k64x4 = {Len(K64X4) - 4}
  /\ acc.ms_st = {SHA512_BLOCK_WORDS_NUM - 2}

====
